---- MODULE Spec2Model ----
(***************************************************************************)
(* A model of packages/core/src/virtual-content.ts: the codec of virtual   *)
(* filenames (encoders and decoders), the dispatcher virtualContent, and   *)
(* the implicit-modules aggregator renderImplicitModules.                  *)
(*                                                                         *)
(* Strings.  A string is what it is in JavaScript: a sequence of UTF-16    *)
(* code units, each a number in 0..65535.  Str("text") is the string of a  *)
(* literal of printable ASCII characters and Char("c") the code unit of    *)
(* one such character.  The empty string is <<>>.                          *)
(*                                                                         *)
(* An optional value (string | null, Package | undefined) is a sequence    *)
(* of length 0 (absent) or 1 (present).                                    *)
(***************************************************************************)
EXTENDS Integers, Sequences, FiniteSets, TLC

VARIABLES
    dependencies,  \* pkg.dependencies of the owning package: the array the package graph holds
    request,       \* the call the resolver makes: an encoder's arguments or a filename
    virtualFile,   \* the virtual filename produced or loaded, as an optional string
    dependencies0, \* pkg.dependencies as it was when the last virtualContent call began
    outcome        \* what the last call returned or threw, as an optional value

vars == <<dependencies, request, virtualFile, dependencies0, outcome>>

(***************************************************************************)
(* Bounds of the model.                                                    *)
(***************************************************************************)
MaxParts == 3
MaxDeps == 3

(***************************************************************************)
(* String literals.                                                        *)
(***************************************************************************)
\* the printable ASCII characters from " " to "_" and from "a" to "~", in the
\* order of their codes ("`", between them, is written as its code where needed)
AsciiToUnderscore ==
    " !\"#$%&'()*+,-./0123456789:;<=>?@ABCDEFGHIJKLMNOPQRSTUVWXYZ[\\]^_"

AsciiFromA == "abcdefghijklmnopqrstuvwxyz{|}~"

CodeOf ==
    [c \in {SubSeq(AsciiToUnderscore, i, i) : i \in 1..Len(AsciiToUnderscore)} |->
        31 + CHOOSE i \in 1..Len(AsciiToUnderscore) : SubSeq(AsciiToUnderscore, i, i) = c]
    @@ [c \in {SubSeq(AsciiFromA, i, i) : i \in 1..Len(AsciiFromA)} |->
        96 + CHOOSE i \in 1..Len(AsciiFromA) : SubSeq(AsciiFromA, i, i) = c]

Char(c) == CodeOf[c]

Str(text) == [i \in 1..Len(text) |-> CodeOf[SubSeq(text, i, i)]]

(***************************************************************************)
(* String primitives (String.prototype).                                   *)
(***************************************************************************)
Take(s, n) == SubSeq(s, 1, n)

Drop(s, n) == SubSeq(s, n + 1, Len(s))

startsWith(s, p) == Len(p) <= Len(s) /\ SubSeq(s, 1, Len(p)) = p

endsWith(s, p) == Len(p) <= Len(s) /\ SubSeq(s, Len(s) - Len(p) + 1, Len(s)) = p

\* the positions of the separator c in s
separators(s, c) == {i \in 1..Len(s) : s[i] = c}

\* the position of the k-th separator; 0 before the first and one past the
\* end of the string after the last
separatorAt(seps, k, len) ==
    IF k = 0 THEN 0
    ELSE IF k > Cardinality(seps) THEN len + 1
    ELSE CHOOSE i \in seps : Cardinality({m \in seps : m < i}) = k - 1

\* the pieces of s between the separators
splitAt(s, seps) ==
    [k \in 1..(Cardinality(seps) + 1) |->
        SubSeq(s, separatorAt(seps, k - 1, Len(s)) + 1, separatorAt(seps, k, Len(s)) - 1)]

\* s.split(c) for a one-character separator c: the sequence of the pieces
split(s, c) == splitAt(s, separators(s, c))

RECURSIVE joinWith(_, _)
\* pieces.join(c)
joinWith(pieces, c) ==
    IF Len(pieces) = 0 THEN <<>>
    ELSE IF Len(pieces) = 1 THEN pieces[1]
    ELSE pieces[1] \o <<c>> \o joinWith(Tail(pieces), c)

RECURSIVE Flatten(_)
\* the concatenation of a sequence of strings
Flatten(ss) == IF Len(ss) = 0 THEN <<>> ELSE ss[1] \o Flatten(Tail(ss))

Range(s) == {s[i] : i \in 1..Len(s)}

\* the characters a "." of a regular expression does not match
LineTerminators == {10, 13, 8232, 8233}

(***************************************************************************)
(* Node's path module on a posix platform (line 1 imports dirname,         *)
(* basename, resolve, posix, sep and join from it).                        *)
(***************************************************************************)
sep == Char("/")

Dot == Str(".")

DotDot == Str("..")

\* process.cwd(), which path.resolve falls back on for a relative path
cwd == Str("/cwd")

isAbsolute(path) == Len(path) > 0 /\ path[1] = Char("/")

Max(S) == CHOOSE x \in S : \A y \in S : y <= x

RECURSIVE normalizeSegments(_, _, _)
\* the loop of normalizeString over the segments still to read: empty and "."
\* segments are dropped, ".." removes the segment before it
normalizeSegments(segs, acc, allowAboveRoot) ==
    IF Len(segs) = 0 THEN acc
    ELSE LET seg == Head(segs)
             rest == Tail(segs)
         IN  IF seg = <<>> \/ seg = Dot
             THEN normalizeSegments(rest, acc, allowAboveRoot)
             ELSE IF seg = DotDot
             THEN IF Len(acc) > 0 /\ acc[Len(acc)] # DotDot
                  THEN normalizeSegments(rest, Take(acc, Len(acc) - 1), allowAboveRoot)
                  ELSE IF allowAboveRoot
                  THEN normalizeSegments(rest, Append(acc, DotDot), allowAboveRoot)
                  ELSE normalizeSegments(rest, acc, allowAboveRoot)
             ELSE normalizeSegments(rest, Append(acc, seg), allowAboveRoot)

normalizeString(path, allowAboveRoot) ==
    joinWith(normalizeSegments(split(path, Char("/")), <<>>, allowAboveRoot), Char("/"))

\* the end of path.normalize: p is the path normalized by normalizeString
normalized(path, p) ==
    LET abs == isAbsolute(path)
        trailing == path[Len(path)] = Char("/")
    IN  IF Len(p) = 0
        THEN (IF abs THEN Str("/") ELSE IF trailing THEN Str("./") ELSE Dot)
        ELSE (IF abs THEN Str("/") ELSE <<>>) \o p \o (IF trailing THEN Str("/") ELSE <<>>)

\* path.normalize
normalize(path) ==
    IF Len(path) = 0 THEN Dot
    ELSE normalized(path, normalizeString(path, ~isAbsolute(path)))

\* path.join(a, b), which is posix.join on this platform: the non-empty
\* arguments joined by "/" and normalized
join(a, b) ==
    LET parts == SelectSeq(<<a, b>>, LAMBDA x : Len(x) > 0)
    IN  IF Len(parts) = 0 THEN Dot ELSE normalize(joinWith(parts, Char("/")))

\* path.resolve(a, b): b against a, and against the working directory when
\* neither is absolute
resolve(a, b) ==
    Str("/") \o normalizeString(
        IF isAbsolute(b) THEN b
        ELSE IF isAbsolute(a) THEN a \o Str("/") \o b
        ELSE IF Len(a) = 0 THEN cwd \o Str("/") \o b
        ELSE cwd \o Str("/") \o a \o Str("/") \o b,
        FALSE)

\* path.dirname
dirname(path) ==
    IF Len(path) = 0 THEN Dot
    ELSE LET hasRoot == path[1] = Char("/")
             ends == {i \in 2..Len(path) :
                         path[i] = Char("/") /\ \E j \in (i + 1)..Len(path) : path[j] # Char("/")}
         IN  IF ends = {} THEN (IF hasRoot THEN Str("/") ELSE Dot)
             ELSE IF hasRoot /\ Max(ends) = 2 THEN Str("//")
             ELSE Take(path, Max(ends) - 1)

\* path.basename(path): the last run of characters that holds no "/"
basename(path) ==
    LET nonSlash == {i \in 1..Len(path) : path[i] # Char("/")}
    IN  IF nonSlash = {} THEN <<>>
        ELSE LET last == Max(nonSlash)
                 slashes == {i \in 1..last : path[i] = Char("/")}
                 start == IF slashes = {} THEN 0 ELSE Max(slashes)
             IN  SubSeq(path, start + 1, last)

\* the segments of an absolute, normalized path
SegmentsOf(path) == SelectSeq(split(path, Char("/")), LAMBDA x : Len(x) > 0)

\* the number of leading segments two paths share
commonLength(f, t) ==
    Max({n \in 0..Len(f) : n <= Len(t) /\ Take(f, n) = Take(t, n)})

\* from the segments f to the segments t: one ".." for each segment of f past
\* the c they share, then the segments of t past them
relativeSegments(f, t, c) ==
    joinWith([i \in 1..(Len(f) - c) |-> DotDot] \o Drop(t, c), Char("/"))

relativeResolved(f, t) == relativeSegments(f, t, commonLength(f, t))

\* path.relative(from, to)
relative(from, to) ==
    IF from = to THEN <<>>
    ELSE relativeResolved(SegmentsOf(resolve(<<>>, from)), SegmentsOf(resolve(<<>>, to)))

(***************************************************************************)
(* explicitRelative of the package's index (imported on line 2): the       *)
(* relative path from a directory to a file, written so that it cannot be  *)
(* read as a package name.                                                 *)
(***************************************************************************)
\* the prefix that makes the path unambiguously relative
explicit(joined) ==
    IF ~isAbsolute(joined) /\ ~startsWith(joined, Dot) THEN Str("./") \o joined ELSE joined

explicitRelative(fromDir, toFile) ==
    explicit(join(relative(fromDir, dirname(toFile)), basename(toFile)))

(***************************************************************************)
(* encodeURIComponent and decodeURIComponent (ECMAScript Encode and        *)
(* Decode).  Both give [throws |-> TRUE] for the URIError they throw and   *)
(* [throws |-> FALSE, value |-> the string] otherwise.                     *)
(***************************************************************************)
\* the characters encodeURIComponent leaves as they are
uriUnescaped ==
    (Char("A")..Char("Z")) \cup (Char("a")..Char("z")) \cup (Char("0")..Char("9"))
        \cup Range(Str("-_.!~*'()"))

LeadSurrogates == 55296..56319

TrailSurrogates == 56320..57343

\* the hexadecimal digit of a value in 0..15, upper case
hexDigit(d) == IF d < 10 THEN Char("0") + d ELSE Char("A") + (d - 10)

\* "%XX" for one octet
percent(octet) == <<Char("%"), hexDigit(octet \div 16), hexDigit(octet % 16)>>

\* the UTF-8 octets of a code point
utf8(cp) ==
    IF cp < 128 THEN <<cp>>
    ELSE IF cp < 2048 THEN <<192 + (cp \div 64), 128 + (cp % 64)>>
    ELSE IF cp < 65536
    THEN <<224 + (cp \div 4096), 128 + ((cp \div 64) % 64), 128 + (cp % 64)>>
    ELSE <<240 + (cp \div 262144), 128 + ((cp \div 4096) % 64),
           128 + ((cp \div 64) % 64), 128 + (cp % 64)>>

percentEncoded(octets) == Flatten([i \in 1..Len(octets) |-> percent(octets[i])])

\* the code point of a surrogate pair
pairedCodePoint(lead, trail) == 65536 + (lead - 55296) * 1024 + (trail - 56320)

RECURSIVE encodeFrom(_, _, _)
\* the loop of Encode from position k, acc being what is encoded so far
encodeFrom(s, k, acc) ==
    IF k > Len(s) THEN [throws |-> FALSE, value |-> acc]
    ELSE IF s[k] \in uriUnescaped THEN encodeFrom(s, k + 1, Append(acc, s[k]))
    ELSE IF s[k] \in TrailSurrogates THEN [throws |-> TRUE]
    ELSE IF s[k] \in LeadSurrogates
    THEN IF k + 1 <= Len(s) /\ s[k + 1] \in TrailSurrogates
         THEN encodeFrom(s, k + 2,
                         acc \o percentEncoded(utf8(pairedCodePoint(s[k], s[k + 1]))))
         ELSE [throws |-> TRUE]
    ELSE encodeFrom(s, k + 1, acc \o percentEncoded(utf8(s[k])))

encodeURIComponent(s) == encodeFrom(s, 1, <<>>)

isHexDigit(c) ==
    c \in (Char("0")..Char("9")) \cup (Char("A")..Char("F")) \cup (Char("a")..Char("f"))

hexValue(c) ==
    IF c \in Char("0")..Char("9") THEN c - Char("0")
    ELSE IF c \in Char("A")..Char("F") THEN 10 + (c - Char("A"))
    ELSE 10 + (c - Char("a"))

\* "%" and two hexadecimal digits stand at position k
escapeAt(s, k) ==
    k + 2 <= Len(s) /\ s[k] = Char("%") /\ isHexDigit(s[k + 1]) /\ isHexDigit(s[k + 2])

\* the octet of the escape at position k
octetAt(s, k) == 16 * hexValue(s[k + 1]) + hexValue(s[k + 2])

\* the number of octets of the UTF-8 sequence an octet starts: the number of
\* its leading 1 bits, or 1 when it has none; 0 when it can start no sequence
sequenceLength(octet) ==
    IF octet < 128 THEN 1
    ELSE IF octet < 192 THEN 0
    ELSE IF octet < 224 THEN 2
    ELSE IF octet < 240 THEN 3
    ELSE IF octet < 248 THEN 4
    ELSE 0

\* the code point octets encode, were they well formed
codePoint(o) ==
    IF Len(o) = 1 THEN o[1]
    ELSE IF Len(o) = 2 THEN (o[1] - 192) * 64 + (o[2] - 128)
    ELSE IF Len(o) = 3 THEN (o[1] - 224) * 4096 + (o[2] - 128) * 64 + (o[3] - 128)
    ELSE (o[1] - 240) * 262144 + (o[2] - 128) * 4096 + (o[3] - 128) * 64 + (o[4] - 128)

\* octets are the UTF-8 encoding of a code point: continuation octets follow,
\* the encoding is the shortest one, and the code point is no surrogate and
\* at most 0x10FFFF
validUTF8(o) ==
    /\ \A j \in 2..Len(o) : o[j] \in 128..191
    /\ utf8(codePoint(o)) = o
    /\ codePoint(o) \notin 55296..57343
    /\ codePoint(o) <= 1114111

\* the UTF-16 code units of a code point
utf16(cp) ==
    IF cp < 65536 THEN <<cp>>
    ELSE <<55296 + ((cp - 65536) \div 1024), 56320 + ((cp - 65536) % 1024)>>

\* the octets of n escapes in a row from position k
octetsAt(s, k, n) == [j \in 1..n |-> octetAt(s, k + 3 * (j - 1))]

\* n escapes stand in a row from position k and hold a UTF-8 sequence
sequenceAt(s, k, n) ==
    /\ n > 0
    /\ \A j \in 1..n : escapeAt(s, k + 3 * (j - 1))
    /\ validUTF8(octetsAt(s, k, n))

RECURSIVE decodeFrom(_, _, _)
\* the loop of Decode from position k, acc being what is decoded so far
decodeFrom(s, k, acc) ==
    IF k > Len(s) THEN [throws |-> FALSE, value |-> acc]
    ELSE IF s[k] # Char("%") THEN decodeFrom(s, k + 1, Append(acc, s[k]))
    ELSE IF ~escapeAt(s, k) THEN [throws |-> TRUE]
    ELSE IF ~sequenceAt(s, k, sequenceLength(octetAt(s, k))) THEN [throws |-> TRUE]
    ELSE decodeFrom(s, k + 3 * sequenceLength(octetAt(s, k)),
                    acc \o utf16(codePoint(octetsAt(s, k, sequenceLength(octetAt(s, k))))))

decodeURIComponent(s) == decodeFrom(s, 1, <<>>)

(***************************************************************************)
(* The filename grammar.                                                   *)
(***************************************************************************)
externalPrefix == Str("/@embroider/external/")

pairComponentMarker == Str("/embroider-pair-component")

fastbootSwitchSuffix == Str("/embroider_fastboot_switch")

\* the "?names=" of fastbootSwitchPattern and of fastbootSwitch
namesQuery == Str("?names=")

\* the two suffixes of decodeImplicitModules: "/#embroider-" and the type
implicitModulesSuffix(type) == Str("/#embroider-") \o Str(type)

ImplicitTypes == {"implicit-modules", "implicit-test-modules"}

\* what a decoder returns for a filename of another shape (null or undefined)
NoMatch == [kind |-> "none"]

matches(decoded) == decoded.kind # "none"

\* the extensions of exts s ends with
extensionsOf(s, exts) == {e \in exts : endsWith(s, e)}

\* the match of /(ext1|ext2)$/ in s starts at the first position one can
\* start at: it is the longest extension s ends with
extensionOf(found) == CHOOSE e \in found : \A other \in found : Len(other) <= Len(e)

stripped(s, found) == IF found = {} THEN s ELSE Take(s, Len(s) - Len(extensionOf(found)))

\* s.replace(/(ext1|ext2)$/, ''): the extension s ends with, removed
stripExtension(s, exts) == stripped(s, extensionsOf(s, exts))

virtualExternalModule(specifier) == externalPrefix \o specifier

\* the filename, once relativeJSModule is encoded; the URIError of
\* encodeURIComponent leaves virtualPairComponent
pairComponentFilename(hbsModule, encoded) ==
    IF encoded.throws
    THEN [throws |-> TRUE]
    ELSE [throws |-> FALSE,
          value |-> hbsModule \o Str("/") \o encoded.value \o pairComponentMarker]

\* a variant that takes the path to jsModule from the template module itself
\* instead of from its "j" directory
virtualPairComponentFromTemplate(hbsModule, jsModule) ==
    pairComponentFilename(
        hbsModule,
        encodeURIComponent(
            IF Len(jsModule) = 1 /\ Len(jsModule[1]) > 0
            THEN explicitRelative(hbsModule \o Str("/"), jsModule[1])
            ELSE <<>>))

\* jsModule is an optional string; null and "" are both falsy
virtualPairComponent(hbsModule, jsModule) ==
    pairComponentFilename(
        hbsModule,
        encodeURIComponent(
            IF Len(jsModule) = 1 /\ Len(jsModule[1]) > 0
            THEN explicitRelative(hbsModule \o Str("/j/"), jsModule[1])
            ELSE <<>>))

\* what decodeVirtualPairComponent returns, or the URIError it throws, once
\* relativeHBSModule is computed and the jsModule group is percent-decoded
pairComponent(relativeHBSModule, decoded) ==
    IF decoded.throws
    THEN [kind |-> "throw", error |-> "URIError"]
    ELSE [kind |-> "match",
          relativeHBSModule |-> relativeHBSModule,
          relativeJSModule |-> IF Len(decoded.value) = 0 THEN <<>> ELSE <<decoded.value>>,
          debugName |-> stripExtension(basename(relativeHBSModule), {Str(".js"), Str(".hbs")})]

\* the match of pairComponentPattern whose "/" between the two groups is at
\* position slash of front, the filename without the marker
pairComponentMatch(filename, front, slash) ==
    pairComponent(explicitRelative(dirname(filename), Take(front, slash - 1)),
                  decodeURIComponent(Drop(front, slash)))

\* pairComponentPattern: ^(.*)/([^/]*)/embroider-pair-component$
\* [^/]* holds no "/", so the groups are split at the last "/" before the
\* marker; .* holds no line terminator
pairComponentGroups(filename, front, slashes) ==
    IF slashes # {} /\ Range(Take(front, Max(slashes) - 1)) \cap LineTerminators = {}
    THEN pairComponentMatch(filename, front, Max(slashes))
    ELSE NoMatch

pairComponentFront(filename, front) ==
    pairComponentGroups(filename, front, {i \in 1..Len(front) : front[i] = Char("/")})

decodeVirtualPairComponent(filename) ==
    IF endsWith(filename, pairComponentMarker)
    THEN pairComponentFront(filename, Take(filename, Len(filename) - Len(pairComponentMarker)))
    ELSE NoMatch

\* names is the insertion-ordered Set of export names, as a sequence
fastbootSwitch(specifier, fromFile, names) ==
    resolve(dirname(fromFile), specifier) \o fastbootSwitchSuffix
        \o (IF Len(names) > 0 THEN namesQuery \o joinWith(names, Char(",")) ELSE <<>>)

\* a variant of the pattern without its "$": anything can follow the suffix
fastbootSwitchTailOpen(tail) == Len(tail) >= 0

\* fastbootSwitchPattern: (.+)/embroider_fastboot_switch(?:\?names=(.+))?$
\* what can follow the suffix in a match: the end, or "?names=" and a name
\* list that holds no line terminator
fastbootSwitchTail(tail) ==
    \/ Len(tail) = 0
    \/ /\ startsWith(tail, namesQuery)
       /\ Len(tail) > Len(namesQuery)
       /\ Range(Drop(tail, Len(namesQuery))) \cap LineTerminators = {}

\* the suffix stands at position i and a match can end with it
fastbootSwitchAt(filename, i) ==
    /\ i + Len(fastbootSwitchSuffix) - 1 <= Len(filename)
    /\ SubSeq(filename, i, i + Len(fastbootSwitchSuffix) - 1) = fastbootSwitchSuffix
    /\ fastbootSwitchTail(Drop(filename, i + Len(fastbootSwitchSuffix) - 1))

\* The pattern is not anchored at the start: the match starts at the first
\* position a match can start at, which is the one after the last line
\* terminator before the suffix, "original" holding none.
fastbootSwitchStart(filename, i) ==
    1 + Max({0} \cup {j \in 1..(i - 1) : filename[j] \in LineTerminators})

\* match.groups?.names?.split(',') ?? []
fastbootSwitchNames(tail) ==
    IF Len(tail) = 0 THEN <<>> ELSE split(Drop(tail, Len(namesQuery)), Char(","))

\* a variant that leaves "default" among the names
fastbootSwitchDecodedKeepingDefault(original, names) ==
    [kind |-> "match",
     names |-> names,
     hasDefaultExport |-> \E j \in 1..Len(names) : names[j] = Str("default"),
     filename |-> original]

fastbootSwitchDecoded(original, names) ==
    [kind |-> "match",
     names |-> SelectSeq(names, LAMBDA name : name # Str("default")),
     hasDefaultExport |-> \E j \in 1..Len(names) : names[j] = Str("default"),
     filename |-> original]

\* "original" is greedy and not empty: the match ends with the last suffix
\* that stands after the start
fastbootSwitchMatch(filename, i) ==
    fastbootSwitchDecoded(
        SubSeq(filename, fastbootSwitchStart(filename, i), i - 1),
        fastbootSwitchNames(Drop(filename, i + Len(fastbootSwitchSuffix) - 1)))

fastbootSwitchEnds(filename) ==
    {i \in 2..Len(filename) :
        fastbootSwitchAt(filename, i) /\ fastbootSwitchStart(filename, i) < i}

decodeFastbootSwitch(filename) ==
    IF fastbootSwitchEnds(filename) # {}
    THEN fastbootSwitchMatch(filename, Max(fastbootSwitchEnds(filename)))
    ELSE NoMatch

decodeImplicitModules(filename) ==
    IF endsWith(filename, implicitModulesSuffix("implicit-modules"))
    THEN [kind |-> "match", type |-> "implicit-modules",
          fromFile |->
              Take(filename, Len(filename) - Len(implicitModulesSuffix("implicit-modules")))]
    ELSE IF endsWith(filename, implicitModulesSuffix("implicit-test-modules"))
    THEN [kind |-> "match", type |-> "implicit-test-modules",
          fromFile |->
              Take(filename, Len(filename) - Len(implicitModulesSuffix("implicit-test-modules")))]
    ELSE NoMatch

(***************************************************************************)
(* The package graph, as the resolver's packageCache serves it.  A Package *)
(* is a record                                                             *)
(*   name          its package name                                        *)
(*   v2Addon       what isV2Addon() answers                                *)
(*   engine        what isEngine() answers                                 *)
(*   category      what the owning package's categorizeDependency(name)    *)
(*                 answers for it                                          *)
(*   meta          its optional "ember-addon" metadata, a record whose     *)
(*                 absent keys are outside its DOMAIN; renamed-packages    *)
(*                 and renamed-modules are the <<key, value>> pairs of     *)
(*                 the object, in the order of Object.entries              *)
(*   dependencies  the names of its own dependencies                       *)
(***************************************************************************)
isV2Addon(dep) == dep.v2Addon

isEngine(dep) == dep.engine

categorizeDependency(pkg, dep) == dep.category

\* resolver.options.resolvableExtensions, as extensionsPattern reads them
resolvableExtensions == {Str(".js"), Str(".hbs"), Str(".ts")}

\* packageCache.ownerOfFile: the app owns /app, a package that is not a v2
\* ember package owns /lib, and no package owns any other file
ownerOfFile(fromFile) ==
    IF startsWith(fromFile, Str("/app/"))
    THEN <<[name |-> Str("app"), isV2Ember |-> TRUE]>>
    ELSE IF startsWith(fromFile, Str("/lib/"))
    THEN <<[name |-> Str("lib"), isV2Ember |-> FALSE]>>
    ELSE <<>>

\* meta[key] || fallback
metaOr(dep, key, fallback) ==
    IF Len(dep.meta) = 1 /\ key \in DOMAIN dep.meta[1] THEN dep.meta[1][key] ELSE fallback

\* a variant that reads the order-index of any package, v2 addon or not
orderAddonsOfAnyPackage(depA, depB) ==
    metaOr(depA, "order-index", 0) - metaOr(depB, "order-index", 0)

orderAddons(depA, depB) ==
    LET depAIdx == IF Len(depA.meta) = 1 /\ isV2Addon(depA)
                   THEN metaOr(depA, "order-index", 0) ELSE 0
        depBIdx == IF Len(depB.meta) = 1 /\ isV2Addon(depB)
                   THEN metaOr(depB, "order-index", 0) ELSE 0
    IN  depAIdx - depBIdx

\* one step of Array.prototype.sort, which is stable: x goes before the first
\* element that the comparator puts after it
insertAt(sorted, x, p) == Take(sorted, p - 1) \o <<x>> \o Drop(sorted, p - 1)

insertSorted(sorted, x) ==
    IF \E i \in 1..Len(sorted) : orderAddons(sorted[i], x) > 0
    THEN insertAt(sorted, x,
                  CHOOSE i \in 1..Len(sorted) :
                      /\ orderAddons(sorted[i], x) > 0
                      /\ \A j \in 1..(i - 1) : orderAddons(sorted[j], x) <= 0)
    ELSE Append(sorted, x)

RECURSIVE sortFrom(_, _)
sortFrom(sorted, rest) ==
    IF Len(rest) = 0 THEN sorted
    ELSE sortFrom(insertSorted(sorted, Head(rest)), Tail(rest))

\* pkg.dependencies.sort(orderAddons): the array, sorted in place
sortDependencies(array) == sortFrom(<<>>, array)

\* the properties every plain object inherits from Object.prototype
ObjectPrototypeKeys ==
    { Str("constructor"), Str("hasOwnProperty"), Str("isPrototypeOf"),
      Str("propertyIsEnumerable"), Str("toLocaleString"), Str("toString"),
      Str("valueOf"), Str("__proto__"), Str("__defineGetter__"),
      Str("__defineSetter__"), Str("__lookupGetter__"), Str("__lookupSetter__") }

\* the entries that made key an own property of the object built by
\* assignments: assigning a string to "__proto__" makes none
assignments(entries, key) ==
    {i \in 1..Len(entries) : entries[i][1] = key /\ key # Str("__proto__")}

\* object[key]: the string last assigned under the key, else what
\* Object.prototype holds under it, which is no string, else undefined
property(entries, key, own) ==
    IF own # {} THEN [kind |-> "string", value |-> entries[Max(own)][2]]
    ELSE IF key \in ObjectPrototypeKeys THEN [kind |-> "object"]
    ELSE [kind |-> "undefined"]

lookup(entries, key) == property(entries, key, assignments(entries, key))

\* from classic |-> real to real |-> classic, both without their extension
inverted(renamed, extensions) ==
    [i \in 1..Len(renamed) |->
        <<stripExtension(renamed[i][2], extensions),
          stripExtension(renamed[i][1], extensions)>>]

\* the inverted mapping as an optional value: undefined without renamed-modules
inverseRenamedModules(dep, extensions) ==
    IF Len(dep.meta) = 1 /\ "renamed-modules" \in DOMAIN dep.meta[1]
    THEN <<inverted(dep.meta[1]["renamed-modules"], extensions)>>
    ELSE <<>>

\* the package name an implicit module is registered under: the key of the
\* last renamed-packages entry whose value is the dependency's name
renamedTo(renamedMeta, name) ==
    IF \E i \in 1..Len(renamedMeta) : renamedMeta[i][2] = name
    THEN renamedMeta[Max({i \in 1..Len(renamedMeta) : renamedMeta[i][2] = name})][1]
    ELSE name

packageNameOf(dep) == renamedTo(metaOr(dep, "renamed-packages", <<>>), dep.name)

\* s.split(from).join(to) for one-character strings
replaceChar(s, from, to) == [i \in 1..Len(s) |-> IF s[i] = from THEN to ELSE s[i]]

\* renamedModules && renamedModules[runtimeRenameLookup]
renamedRuntime(runtime, renamedModules) ==
    IF Len(renamedModules) = 0
    THEN [kind |-> "undefined"]
    ELSE lookup(renamedModules[1], replaceChar(runtime, Char("\\"), Char("/")))

\* The {runtime, buildtime} entry of one implicit module, found being what
\* the inverted renamed-modules hold for it: a classic name that is not ""
\* replaces the runtime name, and a value that is no string has no split
\* method, so that runtime.split(sep) throws a TypeError
lazyEntry(runtime, found, buildtime) ==
    IF found.kind = "object"
    THEN [throws |-> TRUE]
    ELSE [throws |-> FALSE,
          runtime |->
              joinWith(split(IF found.kind = "string" /\ Len(found.value) > 0
                             THEN found.value ELSE runtime,
                             sep),
                       Char("/")),
          buildtime |-> buildtime]

lazyRuntime(runtime, renamedModules, buildtime) ==
    lazyEntry(runtime, renamedRuntime(runtime, renamedModules), buildtime)

\* a variant whose build-time specifier loses its extension as well
lazyModuleNamedStripped(dep, packageName, name) ==
    lazyRuntime(stripExtension(join(packageName, name), resolvableExtensions),
                inverseRenamedModules(dep, resolvableExtensions),
                stripExtension(join(packageName, name), resolvableExtensions))

lazyModuleNamed(dep, packageName, name) ==
    lazyRuntime(stripExtension(join(packageName, name), resolvableExtensions),
                inverseRenamedModules(dep, resolvableExtensions),
                join(packageName, name))

lazyModule(dep, name) == lazyModuleNamed(dep, packageNameOf(dep), name)

\* a variant that does not skip peer dependencies
contributesWithPeers(pkg, dep) == isV2Addon(dep)

\* the dependencies the loop does not skip: active v2 addons that the owning
\* package does not list as a peer dependency
contributes(pkg, dep) ==
    isV2Addon(dep) /\ categorizeDependency(pkg, dep) # "peerDependencies"

lazyModulesOf(pkg, dep, type) ==
    IF contributes(pkg, dep) /\ Len(dep.meta) = 1 /\ type \in DOMAIN dep.meta[1]
    THEN [i \in 1..Len(dep.meta[1][type]) |-> lazyModule(dep, dep.meta[1][type][i])]
    ELSE <<>>

\* a variant that crosses the engine boundary
eagerModulesOfAcrossEngines(pkg, dep, type) ==
    IF contributes(pkg, dep)
    THEN <<join(dep.name, Str("#embroider-") \o Str(type))>>
    ELSE <<>>

eagerModulesOf(pkg, dep, type) ==
    IF contributes(pkg, dep) /\ ~isEngine(dep)
    THEN <<join(dep.name, Str("#embroider-") \o Str(type))>>
    ELSE <<>>

Returned(template, params) == [kind |-> "return", template |-> template, params |-> params]

Thrown(error, detail) == [kind |-> "throw", error |-> error, detail |-> detail]

\* the end of the loop: the TypeError of the first entry that throws one,
\* else the template with the two manifests
implicitModulesTemplate(lazy, eager) ==
    IF \E i \in 1..Len(lazy) : lazy[i].throws
    THEN Thrown("TypeError", Str("runtime.split is not a function"))
    ELSE Returned("implicitModulesTemplate",
                  [lazyModules |->
                       [i \in 1..Len(lazy) |->
                           [runtime |-> lazy[i].runtime, buildtime |-> lazy[i].buildtime]],
                   eagerModules |-> eager])

\* the loop over the sorted dependencies
implicitModules(pkg, deps, type) ==
    implicitModulesTemplate(
        Flatten([i \in 1..Len(deps) |-> lazyModulesOf(pkg, deps[i], type)]),
        Flatten([i \in 1..Len(deps) |-> eagerModulesOf(pkg, deps[i], type)]))

\* resolver is [dependencies |-> the owning package's array]
renderImplicitModulesOf(pkg, im, resolver) ==
    IF Len(pkg) = 0 \/ ~pkg[1].isV2Ember
    THEN Thrown("bug: saw special implicit modules import in non-ember package", im.fromFile)
    ELSE implicitModules(pkg[1], sortDependencies(resolver.dependencies), im.type)

renderImplicitModules(im, resolver) ==
    renderImplicitModulesOf(ownerOfFile(im.fromFile), im, resolver)

\* The dispatcher: what the call returns or throws.
\* lines 25-30: the last decoder, then the error for a filename of no kind
contentOfImplicitModules(im, filename, resolver) ==
    IF matches(im)
    THEN renderImplicitModules(im, resolver)
    ELSE Thrown("not an @embroider/core virtual file", filename)

\* lines 20-23
contentOfFastbootSwitch(fb, filename, resolver) ==
    IF matches(fb)
    THEN Returned("fastbootSwitchTemplate", fb)
    ELSE contentOfImplicitModules(decodeImplicitModules(filename), filename, resolver)

\* lines 15-18: a URIError thrown by the decoder leaves virtualContent
contentOfPairComponent(match, filename, resolver) ==
    IF match.kind = "throw"
    THEN Thrown(match.error, filename)
    ELSE IF matches(match)
    THEN Returned("pairedComponentShim", match)
    ELSE contentOfFastbootSwitch(decodeFastbootSwitch(filename), filename, resolver)

virtualContent(filename, resolver) ==
    IF startsWith(filename, externalPrefix)
    THEN Returned("externalShim", [moduleName |-> Drop(filename, Len(externalPrefix))])
    ELSE contentOfPairComponent(decodeVirtualPairComponent(filename), filename, resolver)

\* The owning package's dependencies array as a call leaves it: a call that
\* gets past the owner check of renderImplicitModules has sorted it in place,
\* whether the loop after the sort ends or throws.
sortedInPlace(result, resolver) ==
    IF \/ result.kind = "return" /\ result.template = "implicitModulesTemplate"
       \/ result.kind = "throw" /\ result.error = "TypeError"
    THEN sortDependencies(resolver.dependencies)
    ELSE resolver.dependencies

(***************************************************************************)
(* Inputs.                                                                 *)
(***************************************************************************)
\* the sequences over S of length at most n
SeqsUpTo(S, n) == UNION {[1..k -> S] : k \in 0..n}

\* those that repeat no element
DistinctSeqsUpTo(S, n) ==
    {q \in SeqsUpTo(S, n) : \A i, j \in 1..Len(q) : i # j => q[i] # q[j]}

\* The pieces filenames are put together from: every marker of the grammar,
\* path segments, a "%" that starts no escape, an escape, the first octet of
\* a UTF-8 sequence that lacks its others, and a line feed.
Parts ==
    { externalPrefix, Str("/app"), Str("/"), Str("%"), Str("%2f"), Str("%E0"), <<10>>,
      Str("default"), pairComponentMarker, fastbootSwitchSuffix, namesQuery,
      fastbootSwitchSuffix \o namesQuery,
      implicitModulesSuffix("implicit-modules"),
      implicitModulesSuffix("implicit-test-modules") }

\* every filename virtualContent is handed directly
Filenames == {Flatten(q) : q \in SeqsUpTo(Parts, MaxParts)}

\* template modules and their optional behaviour modules: absolute,
\* normalized paths of files
HbsModules ==
    { Str("/app/t.hbs"), Str("/app/c/t.hbs"), Str("/app/c/d/t.hbs"), Str("/t.hbs") }

\* among them names with "%", with the text of an escape, with a space, with
\* a backslash, with a character of two UTF-8 octets, with one that is a
\* surrogate pair and with a lead surrogate that has no trail
JsModules ==
    { Str("/app/t.js"), Str("/app/c/t.js"), Str("/app/c/d/u.js"),
      Str("/app/u%.js"), Str("/app/u%2F.js"), Str("/app/a b\\c.js"),
      Str("/app/") \o <<233>> \o Str(".js"),
      Str("/app/c/") \o <<55357, 56832>> \o Str(".js"),
      Str("/app/") \o <<55357>> \o Str(".js"),
      Str("/lib/j/t.js"), Str("/t.js") }

\* among them one that ends with a line feed
Specifiers ==
    { Str("./thing"), Str("../thing"), Str("/abs/thing"),
      Str("./embroider_fastboot_switch"), Str("thing"), Str("./thing") \o <<10>> }

FromFiles == { Str("/pkg/index.js"), Str("/pkg/sub/index.js"), Str("/index.js") }

\* the members of names, a Set<string>: identifiers, "default" for the
\* default export, and strings that are no identifier: two that hold the
\* "," the names are joined with, the empty string, one that ends with a line
\* feed and one that ends with the fastboot suffix
ExportNames ==
    { Str("default"), Str("bar"), Str("baz"), Str("a,b"), Str("x,default"), <<>>,
      Str("a") \o <<10>>, Str("a") \o fastbootSwitchSuffix }

MaxNames == 2

ExternalSpecifiers == { Str("require"), Str("x"), Str("@s/x") }

Requests ==
    {[op |-> "load", filename |-> f] : f \in Filenames}
    \cup {[op |-> "external", specifier |-> x] : x \in ExternalSpecifiers}
    \cup {[op |-> "pair", hbsModule |-> h, jsModule |-> j] :
            h \in HbsModules, j \in {<<>>} \cup {<<m>> : m \in JsModules}}
    \cup {[op |-> "fastboot", specifier |-> x, fromFile |-> f, names |-> n] :
            x \in Specifiers, f \in FromFiles, n \in DistinctSeqsUpTo(ExportNames, MaxNames)}

\* The packages a snapshot of the graph draws the app's dependencies from.
AddonA ==
    [name |-> Str("a"), v2Addon |-> TRUE, engine |-> FALSE, category |-> "dependencies",
     meta |-> <<[version |-> 2, type |-> "addon"] @@
                ("order-index" :> 1) @@
                ("implicit-modules" :> <<Str("./foo.js"), Str("bar.hbs")>>)>>,
     dependencies |-> <<>>]

AddonB ==
    [name |-> Str("b"), v2Addon |-> TRUE, engine |-> FALSE, category |-> "devDependencies",
     meta |-> <<[version |-> 2, type |-> "addon"] @@
                ("implicit-test-modules" :> <<Str("./t.js")>>)>>,
     dependencies |-> <<>>]

Engine ==
    [name |-> Str("eng"), v2Addon |-> TRUE, engine |-> TRUE, category |-> "dependencies",
     meta |-> <<[version |-> 2, type |-> "addon"] @@
                ("implicit-modules" :> <<Str("./e.js")>>) @@
                ("implicit-test-modules" :> <<Str("./et.js")>>)>>,
     dependencies |-> <<Str("inner")>>]

Peer ==
    [name |-> Str("peer"), v2Addon |-> TRUE, engine |-> FALSE, category |-> "peerDependencies",
     meta |-> <<[version |-> 2, type |-> "addon"] @@
                ("order-index" :> (0 - 1)) @@
                ("implicit-modules" :> <<Str("./p.js")>>) @@
                ("implicit-test-modules" :> <<Str("./pt.js")>>)>>,
     dependencies |-> <<>>]

PeerEngine ==
    [name |-> Str("peer-eng"), v2Addon |-> TRUE, engine |-> TRUE,
     category |-> "peerDependencies",
     meta |-> <<[version |-> 2, type |-> "addon"] @@
                ("implicit-modules" :> <<Str("./pe.js")>>)>>,
     dependencies |-> <<>>]

Classic ==
    [name |-> Str("classic"), v2Addon |-> FALSE, engine |-> FALSE, category |-> "dependencies",
     meta |-> <<[version |-> 1, type |-> "addon"] @@
                ("order-index" :> 2) @@
                ("implicit-modules" :> <<Str("./c.js")>>) @@
                ("implicit-test-modules" :> <<Str("./ct.js")>>)>>,
     dependencies |-> <<>>]

Plain ==
    [name |-> Str("plain"), v2Addon |-> FALSE, engine |-> FALSE, category |-> "dependencies",
     meta |-> <<>>, dependencies |-> <<>>]

Renamed ==
    [name |-> Str("ren"), v2Addon |-> TRUE, engine |-> FALSE, category |-> "dependencies",
     meta |-> <<[version |-> 2, type |-> "addon"] @@
                ("order-index" :> 1) @@
                ("renamed-packages" :> << <<Str("old"), Str("ren")>> >>) @@
                ("renamed-modules" :> << <<Str("legacy/m.js"), Str("old/real.js")>> >>) @@
                ("implicit-modules" :> <<Str("./real.js"), Str("./kept.js")>>)>>,
     dependencies |-> <<>>]

\* an addon one of whose runtime names, "toString", is a property that the
\* inverted renamed-modules inherit
Inherited ==
    [name |-> Str("inh"), v2Addon |-> TRUE, engine |-> FALSE, category |-> "dependencies",
     meta |-> <<[version |-> 2, type |-> "addon"] @@
                ("renamed-modules" :> << <<Str("cl/x.js"), Str("inh/a.js")>> >>) @@
                ("implicit-modules" :> <<Str("./a.js"), Str("../toString.js")>>) @@
                ("implicit-test-modules" :> <<Str("./it.js")>>)>>,
     dependencies |-> <<>>]

Packages == {AddonA, AddonB, Engine, Peer, PeerEngine, Classic, Plain, Renamed, Inherited}

\* a package.json lists a dependency once
Snapshots == DistinctSeqsUpTo(Packages, MaxDeps)

AppFile == Str("/app/index.js")

\* the implicit-modules files the aggregator is asked for: of the app, of a
\* package that is not a v2 ember package, and of a file no package owns
GraphFilenames ==
    {AppFile \o implicitModulesSuffix(t) : t \in ImplicitTypes}
    \cup {Str("/lib/index.js") \o implicitModulesSuffix("implicit-modules"),
          Str("/tmp/x.js") \o implicitModulesSuffix("implicit-test-modules")}

(***************************************************************************)
(* The state machine.                                                      *)
(***************************************************************************)
\* virtualContent(filename, resolver), the whole call
Load(file) ==
    /\ virtualFile' = <<file>>
    /\ dependencies0' = dependencies
    /\ outcome' = <<virtualContent(file, [dependencies |-> dependencies])>>
    /\ dependencies' = sortedInPlace(outcome'[1], [dependencies |-> dependencies])
    /\ UNCHANGED request

\* the resolver hands virtualContent a filename it was given
Virtualize ==
    /\ Len(virtualFile) = 0
    /\ Len(outcome) = 0
    /\ request.op = "load"
    /\ virtualFile' = <<request.filename>>
    /\ UNCHANGED <<dependencies, request, dependencies0, outcome>>

VirtualExternalModule ==
    /\ Len(virtualFile) = 0
    /\ Len(outcome) = 0
    /\ request.op = "external"
    /\ virtualFile' = <<virtualExternalModule(request.specifier)>>
    /\ UNCHANGED <<dependencies, request, dependencies0, outcome>>

\* the filename the encoder returned, or the URIError it threw
Encoded(result) ==
    /\ virtualFile' = IF result.throws THEN <<>> ELSE <<result.value>>
    /\ outcome' = IF result.throws THEN <<Thrown("URIError", <<>>)>> ELSE <<>>

VirtualPairComponent ==
    /\ Len(virtualFile) = 0
    /\ Len(outcome) = 0
    /\ request.op = "pair"
    /\ Encoded(virtualPairComponent(request.hbsModule, request.jsModule))
    /\ UNCHANGED <<dependencies, request, dependencies0>>

FastbootSwitch ==
    /\ Len(virtualFile) = 0
    /\ Len(outcome) = 0
    /\ request.op = "fastboot"
    /\ virtualFile' = <<fastbootSwitch(request.specifier, request.fromFile, request.names)>>
    /\ UNCHANGED <<dependencies, request, dependencies0, outcome>>

VirtualContent ==
    /\ Len(virtualFile) = 1
    /\ Len(outcome) = 0
    /\ Load(virtualFile[1])

\* One request: an encoder (or the resolver) produces the virtual filename,
\* then virtualContent loads it.
Init ==
    /\ dependencies = <<Renamed, AddonA, Engine>>
    /\ request \in Requests
    /\ virtualFile = <<>>
    /\ dependencies0 = dependencies
    /\ outcome = <<>>

Next ==
    \/ Virtualize
    \/ VirtualExternalModule
    \/ VirtualPairComponent
    \/ FastbootSwitch
    \/ VirtualContent

Spec == Init /\ [][Next]_vars

\* Any number of implicit-modules loads against one snapshot of the graph.
LoadImplicitModules == \E f \in GraphFilenames : Load(f)

GraphInit ==
    /\ dependencies \in Snapshots
    /\ request = [op |-> "load"]
    /\ virtualFile = <<>>
    /\ dependencies0 = dependencies
    /\ outcome = <<>>

GraphNext == LoadImplicitModules

GraphSpec == GraphInit /\ [][GraphNext]_vars

(***************************************************************************)
(* Properties.  Loaded: a virtualContent call has ended.  Aggregated: it   *)
(* ended by rendering the implicit-modules template.                       *)
(***************************************************************************)
Loaded == Len(virtualFile) = 1 /\ Len(outcome) = 1

Aggregated ==
    /\ Loaded
    /\ outcome[1].kind = "return"
    /\ outcome[1].template = "implicitModulesTemplate"

\* the type of the implicit-modules file that was loaded
LoadedType == decodeImplicitModules(virtualFile[1]).type

Manifest == outcome[1].params

Count(q, x) == Cardinality({i \in 1..Len(q) : q[i] = x})

Contains(s, p) == \E i \in 1..Len(s) : startsWith(Drop(s, i - 1), p)

\* the decoders, of the four, that recognize a filename
KindsMatching(f) ==
    {k \in {"external", "pair", "fastboot", "implicit"} :
        \/ k = "external" /\ startsWith(f, externalPrefix)
        \/ k = "pair" /\ decodeVirtualPairComponent(f).kind # "none"
        \/ k = "fastboot" /\ matches(decodeFastbootSwitch(f))
        \/ k = "implicit" /\ matches(decodeImplicitModules(f))}

\* C1, as claimed: no filename is recognized by two of the four decoders.
C1_DecoderExclusivity ==
    Len(virtualFile) = 1 => Cardinality(KindsMatching(virtualFile[1])) <= 1

\* C1, amended: a filename that does not start with the external prefix and
\* holds no fastboot suffix followed by "?names=" is recognized by at most one
\* decoder.  (The external prefix test reads nothing after the prefix and the
\* name list of the fastboot pattern runs to the end of the filename, so
\* either can hold the suffix of another kind.)
C1_ExclusiveSuffixes ==
    ( /\ Len(virtualFile) = 1
      /\ ~startsWith(virtualFile[1], externalPrefix)
      /\ ~Contains(virtualFile[1], fastbootSwitchSuffix \o namesQuery) )
    => Cardinality(KindsMatching(virtualFile[1])) <= 1

C1_Witness ==
    /\ Loaded
    /\ ~startsWith(virtualFile[1], externalPrefix)
    /\ ~Contains(virtualFile[1], fastbootSwitchSuffix \o namesQuery)
    /\ Contains(virtualFile[1], fastbootSwitchSuffix)
    /\ KindsMatching(virtualFile[1]) = {"pair"}

\* the template of the first kind, in the dispatcher's order, whose decoder
\* recognizes the filename
FirstKind(f) ==
    IF startsWith(f, externalPrefix) THEN "externalShim"
    ELSE IF decodeVirtualPairComponent(f).kind # "none" THEN "pairedComponentShim"
    ELSE IF matches(decodeFastbootSwitch(f)) THEN "fastbootSwitchTemplate"
    ELSE IF matches(decodeImplicitModules(f)) THEN "implicitModulesTemplate"
    ELSE "none"

\* C2, as claimed: virtualContent renders with the generator of the first
\* kind that matches, in the order external, pair, fastboot, implicit modules
\* (the implicit-modules generator may itself refuse the owning package), and
\* fails with "not an @embroider/core virtual file" and the filename when no
\* kind matches.
C2_DispatchOrder ==
    Loaded =>
        IF FirstKind(virtualFile[1]) = "none"
        THEN outcome[1] = Thrown("not an @embroider/core virtual file", virtualFile[1])
        ELSE IF FirstKind(virtualFile[1]) = "implicitModulesTemplate"
        THEN \/ Aggregated
             \/ /\ outcome[1].kind = "throw"
                /\ outcome[1].error
                     = "bug: saw special implicit modules import in non-ember package"
        ELSE /\ outcome[1].kind = "return"
             /\ outcome[1].template = FirstKind(virtualFile[1])

\* the filename a fastboot request was given decodes to the names of the
\* request without "default", in their order, and to hasDefaultExport
\* exactly when "default" was among them
FastbootRoundTrip ==
    /\ matches(decodeFastbootSwitch(virtualFile[1]))
    /\ decodeFastbootSwitch(virtualFile[1]).names
         = SelectSeq(request.names, LAMBDA name : name # Str("default"))
    /\ decodeFastbootSwitch(virtualFile[1]).hasDefaultExport
         = (Str("default") \in Range(request.names))

\* C3, as claimed: for every specifier, fromFile and set of names, decoding
\* the filename fastbootSwitch built matches, yields the names without
\* "default" and hasDefaultExport exactly when "default" was among them.
C3_FastbootRoundTrip ==
    (request.op = "fastboot" /\ Len(virtualFile) = 1) => FastbootRoundTrip

\* names the comma-joined query carries apart: none holds ",", a line
\* terminator or the fastboot suffix, and they are not the empty string alone
Separable(names) ==
    /\ \A i \in 1..Len(names) :
           /\ ~Contains(names[i], Str(","))
           /\ ~Contains(names[i], fastbootSwitchSuffix)
           /\ \A k \in 1..Len(names[i]) : names[i][k] \notin LineTerminators
    /\ names # << <<>> >>

\* the path the suffix is appended to
SwitchedFile == resolve(dirname(request.fromFile), request.specifier)

\* C3, amended: when the resolved path does not end with a line terminator
\* and the names are separable, decoding the filename fastbootSwitch built
\* matches, yields the names without "default" and hasDefaultExport exactly
\* when "default" was among them.
C3_SeparableRoundTrip ==
    ( /\ request.op = "fastboot"
      /\ Len(virtualFile) = 1
      /\ Separable(request.names)
      /\ SwitchedFile[Len(SwitchedFile)] \notin LineTerminators )
    => FastbootRoundTrip

C3_Witness ==
    /\ request.op = "fastboot"
    /\ Loaded
    /\ Separable(request.names)
    /\ SwitchedFile[Len(SwitchedFile)] \notin LineTerminators
    /\ Len(request.names) = 2
    /\ request.names[1] = Str("default")
    /\ outcome[1].kind = "return"
    /\ outcome[1].template = "fastbootSwitchTemplate"
    /\ outcome[1].params.names = <<request.names[2]>>

\* C4: decoding the filename virtualPairComponent built matches; its
\* relativeJSModule is null exactly when no behaviour module was given, and
\* otherwise resolves, from the directory of the virtual file, to the
\* behaviour module.
C4_PairRoundTrip ==
    (request.op = "pair" /\ Len(virtualFile) = 1) =>
        /\ decodeVirtualPairComponent(virtualFile[1]).kind = "match"
        /\ Len(decodeVirtualPairComponent(virtualFile[1]).relativeJSModule)
             = Len(request.jsModule)
        /\ Len(request.jsModule) = 1 =>
             resolve(dirname(virtualFile[1]),
                     decodeVirtualPairComponent(virtualFile[1]).relativeJSModule[1])
               = resolve(<<>>, request.jsModule[1])

C4_Witness ==
    /\ request.op = "pair"
    /\ Loaded
    /\ Len(request.jsModule) = 1
    /\ outcome[1].kind = "return"
    /\ outcome[1].template = "pairedComponentShim"
    /\ Len(outcome[1].params.relativeJSModule) = 1
    /\ startsWith(outcome[1].params.relativeJSModule[1], Str("../.."))
    /\ Contains(virtualFile[1], Str("%25"))

\* C5, as claimed: no decoder throws, and virtualContent throws nothing but
\* its two errors.
C5_DecodersNeverThrow ==
    /\ Len(virtualFile) = 1 => decodeVirtualPairComponent(virtualFile[1]).kind # "throw"
    /\ (Loaded /\ outcome[1].kind = "throw") =>
          outcome[1].error \in
              { "not an @embroider/core virtual file",
                "bug: saw special implicit modules import in non-ember package" }

\* C6, as claimed: a virtualContent call leaves the owning package's
\* dependency list, members and order, as it found it.
C6_GraphUnchanged == Loaded => dependencies = dependencies0

\* a dependency the owning package aggregates: an active v2 addon that is not
\* one of its peer dependencies
Active(dep) == dep.v2Addon /\ dep.category # "peerDependencies"

\* the dependency's own implicit-modules file of a type
OwnFile(dep, type) == dep.name \o implicitModulesSuffix(type)

\* the lazy entries whose build-time specifier lies in a package of that name
LazyUnder(name) ==
    {i \in 1..Len(Manifest.lazyModules) :
        startsWith(Manifest.lazyModules[i].buildtime, name \o Str("/"))}

\* C7, as claimed: every engine among the aggregated dependencies has exactly
\* one eager entry, its own implicit-modules file of the requested type, and
\* no lazy entry comes from a package reached through the engine.
C7_EngineEagerEntry ==
    Aggregated =>
        \A i \in 1..Len(dependencies0) :
            (dependencies0[i].engine /\ Active(dependencies0[i])) =>
                /\ Count(Manifest.eagerModules,
                         OwnFile(dependencies0[i], LoadedType)) = 1
                /\ \A j \in 1..Len(dependencies0[i].dependencies) :
                       LazyUnder(dependencies0[i].dependencies[j]) = {}

\* C7, amended: an engine among the aggregated dependencies has no eager
\* entry (every other aggregated dependency has exactly one, its own
\* implicit-modules file of the requested type), and no lazy entry comes
\* from a package reached through the engine.
C7_EngineBoundary ==
    Aggregated =>
        \A i \in 1..Len(dependencies0) :
            Active(dependencies0[i]) =>
                /\ Count(Manifest.eagerModules,
                         OwnFile(dependencies0[i], LoadedType))
                     = (IF dependencies0[i].engine THEN 0 ELSE 1)
                /\ dependencies0[i].engine =>
                       \A j \in 1..Len(dependencies0[i].dependencies) :
                           LazyUnder(dependencies0[i].dependencies[j]) = {}

C7_Witness ==
    /\ Aggregated
    /\ \E i \in 1..Len(dependencies0) :
           /\ dependencies0[i].engine
           /\ Active(dependencies0[i])
           /\ Len(dependencies0[i].dependencies) > 0
           /\ LazyUnder(dependencies0[i].name) # {}
    /\ Len(Manifest.eagerModules) > 0

\* C8: a dependency that is a peer dependency of the owning package, or that
\* is not an active v2 addon, has no eager entry and no lazy entry in the
\* manifest, whatever it declares and whether or not it is an engine.
C8_ContributionFilter ==
    Aggregated =>
        \A i \in 1..Len(dependencies0) :
            ~Active(dependencies0[i]) =>
                /\ Count(Manifest.eagerModules,
                         OwnFile(dependencies0[i], LoadedType)) = 0
                /\ LazyUnder(dependencies0[i].name) = {}

C8_Witness ==
    /\ Aggregated
    /\ \E i \in 1..Len(dependencies0) :
           /\ dependencies0[i].v2Addon
           /\ dependencies0[i].category = "peerDependencies"
           /\ Len(dependencies0[i].meta) = 1
           /\ LoadedType \in DOMAIN dependencies0[i].meta[1]
    /\ \E i \in 1..Len(dependencies0) : ~dependencies0[i].v2Addon
    /\ Len(Manifest.eagerModules) > 0

\* the order-index the ordering goes by: 0 when absent or not a v2 addon
OrderIndex(dep) ==
    IF dep.v2Addon /\ Len(dep.meta) = 1 /\ "order-index" \in DOMAIN dep.meta[1]
    THEN dep.meta[1]["order-index"]
    ELSE 0

\* the place of the dependency of that name in a dependency list
PlaceOf(list, dep) == CHOOSE i \in 1..Len(list) : list[i] = dep

\* the name a dependency's modules are registered under: the key of its
\* last renamed-packages entry whose value is its own name, else its own name
Renames(dep) ==
    IF Len(dep.meta) = 1 /\ "renamed-packages" \in DOMAIN dep.meta[1]
    THEN {i \in 1..Len(dep.meta[1]["renamed-packages"]) :
             dep.meta[1]["renamed-packages"][i][2] = dep.name}
    ELSE {}

RegisteredName(dep) ==
    IF Renames(dep) = {}
    THEN dep.name
    ELSE dep.meta[1]["renamed-packages"]
             [CHOOSE i \in Renames(dep) : \A j \in Renames(dep) : j <= i][1]

\* the place, in the processed order, of the dependency an entry came from
EagerPlace(entry) ==
    CHOOSE i \in 1..Len(dependencies) :
        startsWith(entry, dependencies[i].name \o Str("/"))

LazyPlace(entry) ==
    CHOOSE i \in 1..Len(dependencies) :
        startsWith(entry.buildtime, RegisteredName(dependencies[i]) \o Str("/"))

\* C9: the dependencies are processed in non-decreasing order-index (0 when
\* absent or not a v2 addon), equal indexes keeping their original relative
\* order, and the eager and the lazy entries appear in that order.
C9_StableOrdering ==
    Aggregated =>
        /\ Len(dependencies) = Len(dependencies0)
        /\ \A i \in 1..Len(dependencies0) :
               Count(dependencies, dependencies0[i]) = 1
        /\ \A i, j \in 1..Len(dependencies) :
               i < j =>
                   /\ OrderIndex(dependencies[i]) <= OrderIndex(dependencies[j])
                   /\ OrderIndex(dependencies[i]) = OrderIndex(dependencies[j]) =>
                          PlaceOf(dependencies0, dependencies[i])
                            < PlaceOf(dependencies0, dependencies[j])
        /\ \A i, j \in 1..Len(Manifest.eagerModules) :
               i < j => EagerPlace(Manifest.eagerModules[i])
                          < EagerPlace(Manifest.eagerModules[j])
        /\ \A i, j \in 1..Len(Manifest.lazyModules) :
               i < j => LazyPlace(Manifest.lazyModules[i])
                          <= LazyPlace(Manifest.lazyModules[j])

C9_Witness ==
    /\ Aggregated
    /\ dependencies # dependencies0
    /\ \E i, j \in 1..Len(dependencies0) :
           /\ i < j
           /\ OrderIndex(dependencies0[i]) = OrderIndex(dependencies0[j])
           /\ Active(dependencies0[i]) /\ Active(dependencies0[j])
    /\ \E i \in 1..Len(dependencies0) :
           ~dependencies0[i].v2Addon /\ OrderIndex(dependencies0[i]) = 0
             /\ Len(dependencies0[i].meta) = 1
             /\ "order-index" \in DOMAIN dependencies0[i].meta[1]
    /\ Len(Manifest.eagerModules) >= 2
    /\ Len(Manifest.lazyModules) >= 2

\* the modules of the requested type a dependency declares
Declared(dep, type) ==
    IF Len(dep.meta) = 1 /\ type \in DOMAIN dep.meta[1]
    THEN Range(dep.meta[1][type])
    ELSE {}

Buildtimes == {Manifest.lazyModules[i].buildtime : i \in 1..Len(Manifest.lazyModules)}

\* C10, as claimed: the build-time specifiers are the posix joins of each
\* aggregated dependency's own package name with each module it declares,
\* extension kept; a package rename does not reach them.
C10_BuildtimeOwnName ==
    Aggregated =>
        Buildtimes =
            UNION { {join(dependencies0[i].name, name) :
                        name \in Declared(dependencies0[i], LoadedType)} :
                    i \in {k \in 1..Len(dependencies0) : Active(dependencies0[k])} }

\* C10, amended: the build-time specifiers are the posix joins of the name
\* each aggregated dependency's modules are registered under (the key of its
\* renamed-packages entry, when the value is the dependency's name) with each
\* module it declares, extension kept.
C10_BuildtimeRegisteredName ==
    Aggregated =>
        Buildtimes =
            UNION { {join(RegisteredName(dependencies0[i]), name) :
                        name \in Declared(dependencies0[i], LoadedType)} :
                    i \in {k \in 1..Len(dependencies0) : Active(dependencies0[k])} }

C10_Witness ==
    /\ Aggregated
    /\ \E i \in 1..Len(dependencies0) :
           /\ Active(dependencies0[i])
           /\ RegisteredName(dependencies0[i]) # dependencies0[i].name
           /\ Declared(dependencies0[i], LoadedType) # {}
           /\ LazyUnder(RegisteredName(dependencies0[i])) # {}
           /\ LazyUnder(dependencies0[i].name) = {}

====
